---- MODULE Spec2Model ----
(***************************************************************************)
(* State-machine model of the SlotBoard component                          *)
(* (src/src/components/SlotBoard.svelte) and of the App that drives it     *)
(* (src/slot-game/src/App.svelte).                                         *)
(*                                                                         *)
(* Units.  Time is counted in ticks of 0.05 s, the grid on which every     *)
(* duration and position offset of ANIMATION_CONFIG lies.  Angles held by  *)
(* the Pixi container are radians; a radian value is stored as an integer  *)
(* number of units of pi/180000, so Math.PI is 180000 and the code's       *)
(* factor (Math.PI / 180) is 1000.  currentRotation and the rotation prop  *)
(* are degrees, as in the code.  Scale factors are stored in thousandths   *)
(* (1.0 is 1000), y in pixels.                                             *)
(***************************************************************************)
EXTENDS Integers, Sequences, FiniteSets, TLC

(***************************************************************************)
(* Bounds of the model                                                     *)
(***************************************************************************)
MaxAnims == 2
MaxCalls == 3
MaxSeed == 142

(***************************************************************************)
(* BOARD_CONFIG and the computed dimensions                                *)
(***************************************************************************)
GRID_SIZE == 5
SYMBOL_SIZE == 60
SYMBOL_SPACING == 10
FRAME_PADDING == 20
CANVAS_PADDING == 100

SYMBOLS ==
    <<"A", "B", "C", "D", "E", "F", "G", "H", "I", "J", "K", "L", "M",
      "N", "O", "P", "Q", "R", "S", "T", "U", "V", "W", "X", "Y", "Z">>

BOARD_WIDTH ==
    GRID_SIZE * SYMBOL_SIZE + (GRID_SIZE - 1) * SYMBOL_SPACING + FRAME_PADDING * 2

BOARD_HEIGHT == BOARD_WIDTH
CANVAS_WIDTH == BOARD_WIDTH + CANVAS_PADDING
CANVAS_HEIGHT == BOARD_HEIGHT + CANVAS_PADDING

(***************************************************************************)
(* ANIMATION_CONFIG                                                        *)
(***************************************************************************)
UPWARD_MOVEMENT == 0 - 80
ROTATION_OVERSHOOT == 95
ROTATION_BOUNCE_BACK == 87
FINAL_ROTATION == 90
ZOOM_OUT_SCALE == 900
\* (variant: the zoom-in stops at the zoomed-out size)
ZoomInScaleShort == ZOOM_OUT_SCALE

ZOOM_IN_SCALE == 1000

\* DURATION, in ticks of 0.05 s
UPWARD == 8
ROTATION_BOUNCE == 3
ROTATION_SETTLE == 4
FALL_DOWN == 10
RESET == 10

\* EASING
EASE_UPWARD == "power2.out"
EASE_ROTATION_BOUNCE == "power1.inOut"
EASE_ROTATION_SETTLE == "elastic.out(1, 0.5)"
EASE_FALL_DOWN == "bounce.out"
EASE_RESET == "power2.inOut"

\* the '-=0.05' position offset of the timeline, in ticks
OVERLAP == 1

\* one frame of the render loop, in ticks
FRAME == 2

(***************************************************************************)
(* Degrees to radians: deg * (Math.PI / 180)                               *)
(***************************************************************************)
MathPI == 180000

DegToRad(deg) == deg * (MathPI \div 180)

(***************************************************************************)
(* The easing curves named in ANIMATION_CONFIG.EASING, in thousandths, at  *)
(* progress n/d (0 <= n <= d).                                             *)
(***************************************************************************)
Cube(x) == x * x * x

Power2Out(n, d) == 1000 - (1000 * Cube(d - n)) \div Cube(d)

Power1InOut(n, d) ==
    IF 2 * n < d THEN (2000 * n * n) \div (d * d)
    ELSE 1000 - (2000 * (d - n) * (d - n)) \div (d * d)

Power2InOut(n, d) ==
    IF 2 * n < d THEN (4000 * Cube(n)) \div Cube(d)
    ELSE 1000 - (4000 * Cube(d - n)) \div Cube(d)

\* 1 + 2^(-10p) * sin((p - 0.125) * 4 pi), tabulated at the quarters of the
\* tween, where the sine is +1 or -1
ElasticOut(n, d) ==
    LET q == (4 * n) \div d
    IN  IF n = 0 THEN 0
        ELSE IF n >= d THEN 1000
        ELSE IF q = 0 THEN (1177 * 4 * n) \div d
        ELSE <<1177, 969, 1006>>[q]

\* 7.5625 * (p - a/22)^2 + off/64 on the four arcs of the bounce
BounceArc(n, d, a, off) ==
    (1000 * ((22 * n - a * d) * (22 * n - a * d) + off * d * d)) \div (64 * d * d)

BounceOut(n, d) ==
    IF 11 * n < 4 * d THEN BounceArc(n, d, 0, 0)
    ELSE IF 11 * n < 8 * d THEN BounceArc(n, d, 12, 48)
    ELSE IF 22 * n < 20 * d THEN BounceArc(n, d, 18, 60)
    ELSE BounceArc(n, d, 21, 63)

Ease(name, n, d) ==
    IF n >= d THEN 1000
    ELSE IF name = "power2.out" THEN Power2Out(n, d)
    ELSE IF name = "power1.inOut" THEN Power1InOut(n, d)
    ELSE IF name = "power2.inOut" THEN Power2InOut(n, d)
    ELSE IF name = "elastic.out(1, 0.5)" THEN ElasticOut(n, d)
    ELSE BounceOut(n, d)

(***************************************************************************)
(* The Pixi container and the gsap animations                              *)
(***************************************************************************)
Min(a, b) == IF a < b THEN a ELSE b
Max(a, b) == IF a > b THEN a ELSE b

(***************************************************************************)
(* The symbol grid                                                         *)
(***************************************************************************)
\* Math.random() returns a number in [0, 1): here a numerator over RAND_DEN
RAND_DEN == 1000

\* the k-th number Math.random() returns (k = 0, 1, ...) in the run of the
\* page whose random stream is `seed`, as a numerator over RAND_DEN
MathRandom(seed, k) == (seed * 7 + k * 389) % RAND_DEN

\* generateSymbolGrid: GRID_SIZE * GRID_SIZE letters, the i-th (from 0) being
\* SYMBOLS[Math.floor(Math.random() * SYMBOLS.length)]
generateSymbolGrid(seed) ==
    LET totalCells == GRID_SIZE * GRID_SIZE
    IN  [n \in 1..totalCells |->
            LET randomIndex == (MathRandom(seed, n - 1) * Len(SYMBOLS)) \div RAND_DEN
            IN  SYMBOLS[randomIndex + 1]]

\* createSymbolCell: a cell container with its letter at (x, y)
createSymbolCell(symbolChar, x, y) ==
    [x |-> x, y |-> y, width |-> SYMBOL_SIZE, height |-> SYMBOL_SIZE,
     text |-> symbolChar]

\* (variant: the cells are laid out without the spacing between them)
createSymbolsGridNoSpacing(grid) ==
    [x |-> FRAME_PADDING, y |-> FRAME_PADDING,
     cells |-> [n \in 1..Len(grid) |->
                   createSymbolCell(grid[n],
                       ((n - 1) % GRID_SIZE) * SYMBOL_SIZE,
                       ((n - 1) \div GRID_SIZE) * SYMBOL_SIZE)]]

\* createSymbolsGrid: the container at FRAME_PADDING with one cell per entry
\* of the grid; entry i (from 0) is cell i + 1 here
createSymbolsGrid(grid) ==
    [x |-> FRAME_PADDING, y |-> FRAME_PADDING,
     cells |-> [n \in 1..Len(grid) |->
                   LET row == (n - 1) \div GRID_SIZE
                       col == (n - 1) % GRID_SIZE
                   IN  createSymbolCell(grid[n],
                           col * (SYMBOL_SIZE + SYMBOL_SPACING),
                           row * (SYMBOL_SIZE + SYMBOL_SPACING))]]

\* no symbols container yet
NoGrid == [x |-> 0, y |-> 0, cells |-> <<>>]

\* new PIXI.Container() positioned by initializeBoardContainer
initializeBoardContainer ==
    [x |-> CANVAS_WIDTH \div 2, y |-> CANVAS_HEIGHT \div 2,
     rotation |-> 0, scaleX |-> 1000, scaleY |-> 1000]

\* The frame drawn by createBoardFrame is the rectangle (0, 0, BOARD_WIDTH,
\* BOARD_HEIGHT) of the container, whose pivot is its centre; at a rotation
\* of a whole number of quarter turns its edges on the canvas are, in
\* thousandths of a pixel:
FrameHalfWidth(b) ==
    IF (b.rotation \div DegToRad(90)) % 2 = 0
    THEN (BOARD_WIDTH \div 2) * b.scaleX
    ELSE (BOARD_HEIGHT \div 2) * b.scaleY

FrameHalfHeight(b) ==
    IF (b.rotation \div DegToRad(90)) % 2 = 0
    THEN (BOARD_HEIGHT \div 2) * b.scaleY
    ELSE (BOARD_WIDTH \div 2) * b.scaleX

FrameLeft(b) == b.x * 1000 - FrameHalfWidth(b)
FrameRight(b) == b.x * 1000 + FrameHalfWidth(b)
FrameTop(b) == b.y * 1000 - FrameHalfHeight(b)
FrameBottom(b) == b.y * 1000 + FrameHalfHeight(b)

\* the container before it exists (boardContainer is null)
NoBoard == [x |-> 0, y |-> 0, rotation |-> 0, scaleX |-> 1000, scaleY |-> 1000]

RECURSIVE TimelineEnd(_)
TimelineEnd(tl) ==
    IF tl = <<>> THEN 0
    ELSE Max(TimelineEnd(SubSeq(tl, 1, Len(tl) - 1)),
             tl[Len(tl)].start + tl[Len(tl)].dur)

\* (variant: '-=0.05' is read like '<')
PositionAtPrevious(tl, position) ==
    IF position = "<" \/ position = "-=0.05" THEN tl[Len(tl)].start
    ELSE TimelineEnd(tl)

\* gsap's position parameter: default (end of the timeline), '<' (start of
\* the previous tween), '-=0.05' (that long before the end of the timeline)
Position(tl, position) ==
    IF position = "<" THEN tl[Len(tl)].start
    ELSE IF position = "-=0.05" THEN TimelineEnd(tl) - OVERLAP
    ELSE TimelineEnd(tl)

\* (variant: the position parameter is ignored, tweens run one after another)
TimelineToSequential(tl, to, dur, ease, position) ==
    Append(tl, [to |-> to, dur |-> dur, ease |-> ease,
                start |-> TimelineEnd(tl),
                inited |-> FALSE, from |-> to])

\* timeline.to(target, vars, position)
TimelineTo(tl, to, dur, ease, position) ==
    Append(tl, [to |-> to, dur |-> dur, ease |-> ease,
                start |-> Position(tl, position),
                inited |-> FALSE, from |-> to])

\* the six tweens of createRotationAnimation
RotationTweens(startRotation, startY) ==
    LET targetY == startY + UPWARD_MOVEMENT
        t1 == TimelineTo(<<>>,
                  [scaleX |-> ZOOM_OUT_SCALE, scaleY |-> ZOOM_OUT_SCALE],
                  UPWARD, EASE_UPWARD, "end")
        t2 == TimelineTo(t1,
                  [y |-> targetY,
                   rotation |-> DegToRad(startRotation + ROTATION_OVERSHOOT)],
                  UPWARD, EASE_UPWARD, "<")
        t3 == TimelineTo(t2,
                  [rotation |-> DegToRad(startRotation + ROTATION_BOUNCE_BACK)],
                  ROTATION_BOUNCE, EASE_ROTATION_BOUNCE, "-=0.05")
        t4 == TimelineTo(t3,
                  [rotation |-> DegToRad(startRotation + FINAL_ROTATION),
                   y |-> targetY],
                  ROTATION_SETTLE, EASE_ROTATION_SETTLE, "end")
        t5 == TimelineTo(t4,
                  [scaleX |-> ZOOM_IN_SCALE, scaleY |-> ZOOM_IN_SCALE],
                  FALL_DOWN, EASE_FALL_DOWN, "-=0.05")
        t6 == TimelineTo(t5, [y |-> startY], FALL_DOWN, EASE_FALL_DOWN, "<")
    IN  t6

\* the scale guard at the head of createRotationAnimation
FixScale(b) ==
    IF b.scaleX = 0 \/ b.scaleY = 0
    THEN [b EXCEPT !.scaleX = 1000, !.scaleY = 1000]
    ELSE b

\* createRotationAnimation: the timeline as it is handed to gsap.  startY
\* and startRotation are captured here and used by onComplete.  The fields
\* clean, idle, after, callRotation and callY are history, recorded by the
\* caller (see Started), and wrote and order are history kept by the render
\* loop (see AdvanceAnim); no operation of the component reads them.
createRotationAnimation(b, cr) ==
    [kind |-> "timeline", time |-> 0,
     startRotation |-> cr, startY |-> b.y,
     tweens |-> RotationTweens(cr, b.y),
     clean |-> TRUE, idle |-> TRUE, after |-> "other",
     callRotation |-> 0, callY |-> 0, wrote |-> {}, order |-> <<>>]

\* gsap.to(boardContainer, {rotation: 0, ...}) of resetRotation
createResetTween(b, cr) ==
    [kind |-> "reset", time |-> 0,
     startRotation |-> cr, startY |-> b.y,
     tweens |-> TimelineTo(<<>>, [rotation |-> 0], RESET, EASE_RESET, "end"),
     clean |-> TRUE, idle |-> TRUE, after |-> "other",
     callRotation |-> 0, callY |-> 0, wrote |-> {}, order |-> <<>>]

\* onComplete of the rotation timeline: the board
TimelineComplete(a, b) ==
    [b EXCEPT !.rotation = DegToRad(a.startRotation + FINAL_ROTATION),
              !.y = a.startY,
              !.scaleX = ZOOM_IN_SCALE, !.scaleY = ZOOM_IN_SCALE]

\* (variant: adds to the current value instead of the captured start)
TimelineCompleteRotationAdds(a, cr) == cr + FINAL_ROTATION

\* onComplete of the rotation timeline: currentRotation
TimelineCompleteRotation(a, cr) == a.startRotation + FINAL_ROTATION

\* (variant: the reset tween has no onComplete)
ResetCompleteRotationKeeps(a, cr) == cr

\* onComplete of the reset tween: currentRotation
ResetCompleteRotation(a, cr) == 0

\* One tween rendered at timeline time `time` (the previous render was at
\* `prev`).  A tween records its start values on its first render, writes
\* start + (end - start) * ease(progress) on every render up to its end, and
\* is not rendered again once it has been rendered at its end.
RenderTween(tw, prev, time, b) ==
    IF time < tw.start \/ (tw.inited /\ prev >= tw.start + tw.dur)
    THEN [tween |-> tw, board |-> b, wrote |-> FALSE]
    ELSE LET from == IF tw.inited THEN tw.from
                     ELSE [p \in DOMAIN tw.to |-> b[p]]
             e == Ease(tw.ease, Min(time - tw.start, tw.dur), tw.dur)
         IN  [tween |-> [tw EXCEPT !.inited = TRUE, !.from = from],
              board |-> [p \in DOMAIN b |->
                            IF p \in DOMAIN tw.to
                            THEN from[p] + ((tw.to[p] - from[p]) * e) \div 1000
                            ELSE b[p]],
              wrote |-> TRUE]

\* F applied to the value of x, which is computed once
Bind(x, F(_)) == CHOOSE y \in {F(v) : v \in {x}} : TRUE

\* The children of one animation rendered in the order they were added.
\* `wrote` lists the children that wrote to the board in this frame.
RECURSIVE RenderTweens(_, _, _, _, _, _)
RenderTweens(tws, i, prev, time, b, wrote) ==
    IF i > Len(tws) THEN [tweens |-> tws, board |-> b, wrote |-> wrote]
    ELSE Bind(RenderTween(tws[i], prev, time, b),
              LAMBDA r :
                  RenderTweens([tws EXCEPT ![i] = r.tween], i + 1, prev, time,
                               r.board,
                               IF r.wrote THEN Append(wrote, i) ELSE wrote))

\* history: the children among `wrote` that were rendered at their end
Ended(tws, wrote, time) ==
    SelectSeq(wrote, LAMBDA i : time >= tws[i].start + tws[i].dur)

\* One animation advanced by one frame; at its end its onComplete runs.
AdvanceAnim(a, b, cr) ==
    Bind(Min(a.time + FRAME, TimelineEnd(a.tweens)), LAMBDA time :
    Bind(RenderTweens(a.tweens, 1, a.time, time, b, <<>>), LAMBDA r :
    Bind(time >= TimelineEnd(a.tweens), LAMBDA finished :
        [finished |-> finished,
         anim |-> [a EXCEPT !.time = time, !.tweens = r.tweens,
                            !.wrote = {r.wrote[k] : k \in DOMAIN r.wrote},
                            !.order = a.order \o Ended(a.tweens, r.wrote, time)],
         board |-> IF finished /\ a.kind = "timeline"
                   THEN TimelineComplete(a, r.board) ELSE r.board,
         currentRotation |->
             IF ~finished THEN cr
             ELSE IF a.kind = "timeline" THEN TimelineCompleteRotation(a, cr)
             ELSE ResetCompleteRotation(a, cr)])))

\* One tick of gsap's ticker: every animation in flight, in creation order.
RECURSIVE TickAll(_, _, _)
TickAll(as, i, acc) ==
    IF i > Len(as) THEN acc
    ELSE Bind(AdvanceAnim(as[i], acc.board, acc.currentRotation),
              LAMBDA r :
                  TickAll(as, i + 1,
                      [anims |-> IF r.finished THEN acc.anims
                                 ELSE Append(acc.anims, r.anim),
                       done |-> IF r.finished THEN Append(acc.done, r.anim)
                                ELSE acc.done,
                       board |-> r.board,
                       currentRotation |-> r.currentRotation]))

(***************************************************************************)
(* State                                                                   *)
(***************************************************************************)
VARIABLES
    mountPc,            \* position of the async onMount callback
    canvasContainer,    \* the bound <div> is non-null
    pixiApp,            \* pixiApp is non-null
    appDestroyed,       \* pixiApp.destroy(...) has been called
    unmounted,          \* onDestroy has run
    boardContainer,     \* boardContainer is non-null
    board,              \* the fields of the Pixi container
    currentRotation,    \* degrees
    originalBoardY,
    activated,          \* prop, bound to the App's `activated`
    rotation,           \* prop, degrees
    slotBoardComponent, \* the App's bind:this reference is non-null
    anims,              \* gsap animations in flight, in creation order
    errorLog,           \* messages written with console.error
    lastCall,           \* the operation that ran last and how it ended
    done,               \* animations whose onComplete ran in the last tick
    since,              \* history: the last operation that acted on the board
    calls,              \* number of operations invoked so far
    randomSeed,         \* the page's Math.random stream
    symbolGrid,         \* the letters of the grid
    symbolsGrid         \* the container of symbol cells built by onMount

vars == <<mountPc, canvasContainer, pixiApp, appDestroyed, unmounted,
          boardContainer, board, currentRotation, originalBoardY, activated,
          rotation, slotBoardComponent, anims, errorLog, lastCall, done,
          since, calls, randomSeed, symbolGrid, symbolsGrid>>

gridVars == <<randomSeed, symbolGrid, symbolsGrid>>

\* values the parent gives the rotation prop
RotationValues == {0, 45}

MSG_INIT == "Failed to initialize board:"
MSG_ANIMATE == "Failed to animate board rotation:"

\* the message of the Error thrown at the head of createRotationAnimation
ERR_NOT_INITIALIZED == "Board container not initialized"

Call(op, raised, returned, started, logged, forwarded) ==
    [op |-> op, raised |-> raised, returned |-> returned, started |-> started,
     logged |-> logged, forwarded |-> forwarded, error |-> "none"]

\* history: the last operation that acted on an existing board, the number
\* of rotation timelines started so far, and whether no reset tween was
\* started and no prop change applied so far
Since(op) ==
    [op |-> op, idle |-> anims = <<>>,
     overTimeline |-> \E i \in DOMAIN anims : anims[i].kind = "timeline",
     spins |-> IF op = "rotate" THEN since.spins + 1 ELSE since.spins,
     onlySpins |-> since.onlySpins /\ op \notin {"reset", "prop"}]

\* history: what the board's rotation was last settled by when a new
\* animation is started: a reset that ran to its end on an idle board, a
\* reset started on an idle board and still running, a change of the
\* rotation prop, or anything else
After ==
    IF since.op = "prop" THEN "prop"
    ELSE IF since.op = "reset" /\ since.idle /\ anims = <<>> THEN "reset"
    ELSE IF since.op = "reset" /\ since.idle /\ Len(anims) = 1
            /\ anims[1].kind = "reset" THEN "resetting"
    ELSE "other"

\* history recorded on an animation when it is started
Started(a) ==
    [a EXCEPT !.idle = anims = <<>>, !.after = After,
              !.callRotation = currentRotation, !.callY = board.y]

\* an operation other than a tick happened while these were in flight
Disturb(as) == [i \in DOMAIN as |-> [as[i] EXCEPT !.clean = FALSE]]

InitComponent ==
    /\ mountPc = "constructed"
    /\ canvasContainer = FALSE
    /\ pixiApp = FALSE
    /\ appDestroyed = FALSE
    /\ unmounted = FALSE
    /\ boardContainer = FALSE
    /\ board = NoBoard
    /\ currentRotation = 0
    /\ originalBoardY = 0
    /\ activated = FALSE
    /\ rotation \in RotationValues
    /\ slotBoardComponent = FALSE
    /\ anims = <<>>
    /\ errorLog = {}
    /\ lastCall = Call("none", FALSE, TRUE, FALSE, FALSE, FALSE)
    /\ since = [op |-> "none", idle |-> TRUE, overTimeline |-> FALSE,
                spins |-> 0, onlySpins |-> TRUE]
    /\ done = <<>>
    /\ calls = 0
    /\ symbolGrid = <<>>
    /\ symbolsGrid = NoGrid

Init == InitComponent /\ randomSeed = 0

(***************************************************************************)
(* $effect: sync the rotation prop into the board                          *)
(***************************************************************************)
EffectApplies(bc) == bc

EffectBoard(bc, b, r) ==
    IF EffectApplies(bc) THEN [b EXCEPT !.rotation = DegToRad(r)] ELSE b

\* (variant: the effect moves the board but not currentRotation)
EffectRotationKeeps(bc, cr, r) == cr

EffectRotation(bc, cr, r) == IF EffectApplies(bc) THEN r ELSE cr

(***************************************************************************)
(* onMount, up to `await pixiApp.init(...)`; the $effect then runs for the *)
(* first time.  `fail`: new PIXI.Application() throws.  bind:this has set  *)
(* canvasContainer (and the App's slotBoardComponent) before onMount runs, *)
(* so the `if (!canvasContainer) return` test lets the callback through.   *)
(***************************************************************************)
Mount(fail) ==
    /\ mountPc = "constructed"
    /\ ~unmounted
    /\ canvasContainer' = TRUE
    /\ slotBoardComponent' = TRUE
    /\ IF fail
       THEN /\ mountPc' = "failed"
            /\ errorLog' = errorLog \cup {MSG_INIT}
            /\ UNCHANGED pixiApp
       ELSE /\ mountPc' = "awaitInit"
            /\ pixiApp' = TRUE
            /\ UNCHANGED errorLog
    /\ board' = EffectBoard(boardContainer, board, rotation)
    /\ currentRotation' = EffectRotation(boardContainer, currentRotation, rotation)
    /\ lastCall' = Call("onMount", fail, TRUE, FALSE, fail, FALSE)
    /\ done' = <<>>
    /\ UNCHANGED <<appDestroyed, unmounted, boardContainer, originalBoardY,
                   activated, rotation, anims, since, calls>>
    /\ UNCHANGED gridVars

(***************************************************************************)
(* onMount after the await.  `fail` names the statement that throws:       *)
(*   "init"   init rejects, or appendChild throws;                         *)
(*   "build"  createBoardFrame, after boardContainer was assigned;         *)
(*   "cells"  createSymbolsGrid while it builds a cell, or the addChild    *)
(*            calls on the board: symbolGrid holds the letters, the        *)
(*            symbols container is not on the board;                       *)
(*   "stage"  pixiApp.stage.addChild: the board is complete but            *)
(*            currentRotation and the rotation are not assigned;           *)
(*   "none"   no library call throws.                                      *)
(* When canvasContainer is null (the component was destroyed during the    *)
(* await and the teardown of bind:this has run), the statement             *)
(* canvasContainer.appendChild(...) throws a TypeError before any later    *)
(* statement runs, whatever the libraries would have done.  The same       *)
(* statement reads pixiApp.canvas.  What a destroyed Application does      *)
(* there is the library's choice, which the sources do not fix:            *)
(* `canvasKept` is TRUE when it still hands out its canvas and its stage,  *)
(* FALSE when the getter throws (a TypeError, as after the renderer was    *)
(* set to null).  It matters only when the continuation runs on a          *)
(* destroyed component before the teardown of bind:this.                   *)
(***************************************************************************)
MountFailures == {"none", "init", "build", "cells", "stage"}

\* the statement of the continuation that throws
MountThrows(cc, destroyed, canvasKept, fail) ==
    IF cc /\ (~destroyed \/ canvasKept) THEN fail ELSE "init"

MountResume(failLib, canvasKept) ==
    LET fail == MountThrows(canvasContainer, appDestroyed, canvasKept, failLib) IN
    /\ mountPc = "awaitInit"
    /\ IF fail = "init"
       THEN /\ mountPc' = "failed"
            /\ errorLog' = errorLog \cup {MSG_INIT}
            /\ UNCHANGED <<boardContainer, board, originalBoardY, currentRotation,
                           symbolGrid, symbolsGrid>>
       ELSE /\ boardContainer' = TRUE
            /\ originalBoardY' = CANVAS_HEIGHT \div 2
            /\ IF fail = "build"
               THEN /\ mountPc' = "failed"
                    /\ errorLog' = errorLog \cup {MSG_INIT}
                    /\ board' = initializeBoardContainer
                    /\ UNCHANGED <<currentRotation, symbolGrid, symbolsGrid>>
               ELSE IF fail = "cells"
               THEN /\ mountPc' = "failed"
                    /\ errorLog' = errorLog \cup {MSG_INIT}
                    /\ board' = initializeBoardContainer
                    /\ symbolGrid' = generateSymbolGrid(randomSeed)
                    /\ UNCHANGED <<currentRotation, symbolsGrid>>
               ELSE IF fail = "stage"
               THEN /\ mountPc' = "failed"
                    /\ errorLog' = errorLog \cup {MSG_INIT}
                    /\ board' = initializeBoardContainer
                    /\ symbolGrid' = generateSymbolGrid(randomSeed)
                    /\ symbolsGrid' = createSymbolsGrid(symbolGrid')
                    /\ UNCHANGED currentRotation
               ELSE /\ mountPc' = "mounted"
                    /\ currentRotation' = 0
                    /\ board' = [initializeBoardContainer EXCEPT !.rotation = 0]
                    /\ symbolGrid' = generateSymbolGrid(randomSeed)
                    /\ symbolsGrid' = createSymbolsGrid(symbolGrid')
                    /\ UNCHANGED errorLog
    /\ lastCall' = Call("onMount.resume", fail # "none", TRUE, FALSE,
                        fail # "none", FALSE)
    /\ done' = <<>>
    \* on a destroyed component the queued teardown of bind:this runs next
    /\ canvasContainer' = (canvasContainer /\ ~unmounted)
    /\ UNCHANGED <<pixiApp, appDestroyed, unmounted, activated,
                   rotation, slotBoardComponent, anims, since, calls, randomSeed>>

(***************************************************************************)
(* onDestroy, with the teardown of `bind:this={canvasContainer}` that the  *)
(* same destruction queues as a microtask (canvasContainer = null).  Only  *)
(* onMount reads canvasContainer, so the microtask is part of this step,   *)
(* except while onMount awaits init: a continuation that is already queued *)
(* runs before the microtask, which is then the step TeardownBindThis.     *)
(***************************************************************************)
Destroy ==
    /\ mountPc # "constructed"
    /\ ~unmounted
    /\ unmounted' = TRUE
    /\ appDestroyed' = pixiApp
    /\ slotBoardComponent' = FALSE
    /\ anims' = Disturb(anims)
    /\ lastCall' = Call("onDestroy", FALSE, TRUE, FALSE, FALSE, FALSE)
    /\ since' = IF boardContainer THEN Since("destroy") ELSE since
    /\ done' = <<>>
    /\ canvasContainer' = (canvasContainer /\ mountPc = "awaitInit")
    /\ UNCHANGED <<mountPc, pixiApp, boardContainer, board,
                   currentRotation, originalBoardY, activated, rotation,
                   errorLog, calls>>
    /\ UNCHANGED gridVars

(***************************************************************************)
(* The teardown of `bind:this={canvasContainer}` of a destroyed component: *)
(* canvasContainer = null, run before a pending mount continuation.        *)
(***************************************************************************)
TeardownBindThis ==
    /\ unmounted
    /\ canvasContainer
    /\ canvasContainer' = FALSE
    /\ lastCall' = Call("teardown", FALSE, TRUE, FALSE, FALSE, FALSE)
    /\ done' = <<>>
    /\ UNCHANGED <<mountPc, pixiApp, appDestroyed, unmounted, boardContainer,
                   board, currentRotation, originalBoardY, activated, rotation,
                   slotBoardComponent, anims, errorLog, since, calls>>
    /\ UNCHANGED gridVars

(***************************************************************************)
(* rotateBoard and resetRotation of the component                          *)
(***************************************************************************)
\* (variant: the null test is missing)
RotateGuardNoBoardTest(bc, act) == act

\* (variant: the activation test is missing)
RotateGuardNoActivation(bc, act) == bc

\* `if (!boardContainer || !activated) return` lets the call through
RotateGuard(bc, act) == bc /\ act

\* (variant: the null test is missing)
ResetGuardMissing(bc) == TRUE

\* `if (!boardContainer) return` lets the call through
ResetGuard(bc) == bc

\* `if (!boardContainer) throw new Error(...)` of createRotationAnimation
CreateThrows(bc) == ~bc

\* createRotationAnimation() is called inside try/catch
RotateCatches == TRUE

\* gsap.to(...) of resetRotation is called outside any try/catch
ResetCatches == FALSE

\* (variant: a new animation overwrites the animations of the same target)
GsapAddOverwriting(as, a) == <<a>>

\* gsap.timeline() / gsap.to(): the new animation joins the animations in
\* flight; no overwrite option is given, so none of them is removed
GsapAdd(as, a) == Append(as, a)

\* rotateBoard(); createRotationAnimation throws its own Error when there
\* is no board; `fail`: a library call in it throws before the timeline
\* exists.  `op` and `forwarded` only label the call in lastCall.
DoRotateBoard(fail, op, forwarded) ==
    IF ~RotateGuard(boardContainer, activated)
    THEN /\ lastCall' = Call(op, FALSE, TRUE, FALSE, FALSE, forwarded)
         /\ UNCHANGED <<board, anims, errorLog, since>>
    ELSE IF CreateThrows(boardContainer)
    THEN /\ lastCall' = [Call(op, TRUE, RotateCatches, FALSE, RotateCatches,
                              forwarded) EXCEPT !.error = ERR_NOT_INITIALIZED]
         /\ errorLog' = IF RotateCatches THEN errorLog \cup {MSG_ANIMATE}
                        ELSE errorLog
         /\ UNCHANGED <<board, anims, since>>
    ELSE IF fail
    THEN /\ lastCall' = [Call(op, TRUE, RotateCatches, FALSE, RotateCatches,
                              forwarded) EXCEPT !.error = "library"]
         /\ errorLog' = IF RotateCatches THEN errorLog \cup {MSG_ANIMATE}
                        ELSE errorLog
         /\ anims' = Disturb(anims)
         /\ since' = Since("raised")
         /\ UNCHANGED board
    ELSE /\ Len(anims) < MaxAnims
         /\ board' = FixScale(board)
         /\ anims' = GsapAdd(Disturb(anims),
                        Started(createRotationAnimation(board, currentRotation)))
         /\ lastCall' = Call(op, FALSE, TRUE, TRUE, FALSE, forwarded)
         /\ since' = Since("rotate")
         /\ UNCHANGED errorLog

\* resetRotation(); `fail`: gsap.to throws
DoResetRotation(fail, op, forwarded) ==
    IF ~ResetGuard(boardContainer)
    THEN /\ lastCall' = Call(op, FALSE, TRUE, FALSE, FALSE, forwarded)
         /\ UNCHANGED <<anims, errorLog, since>>
    ELSE IF fail
    THEN /\ lastCall' = Call(op, TRUE, ResetCatches, FALSE, ResetCatches,
                             forwarded)
         /\ errorLog' = IF ResetCatches THEN errorLog \cup {MSG_ANIMATE}
                        ELSE errorLog
         /\ anims' = Disturb(anims)
         /\ since' = Since("raised")
    ELSE /\ Len(anims) < MaxAnims
         /\ anims' = GsapAdd(Disturb(anims),
                        Started(createResetTween(board, currentRotation)))
         /\ lastCall' = Call(op, FALSE, TRUE, TRUE, FALSE, forwarded)
         /\ since' = Since("reset")
         /\ UNCHANGED errorLog

\* the exported functions called directly by whoever holds the component
RotateBoard(fail) ==
    /\ calls < MaxCalls
    /\ calls' = calls + 1
    /\ DoRotateBoard(fail, "rotateBoard", FALSE)
    /\ done' = <<>>
    /\ UNCHANGED <<mountPc, canvasContainer, pixiApp, appDestroyed, unmounted,
                   boardContainer, currentRotation, originalBoardY, activated,
                   rotation, slotBoardComponent>>
    /\ UNCHANGED gridVars

ResetRotation(fail) ==
    /\ calls < MaxCalls
    /\ calls' = calls + 1
    /\ DoResetRotation(fail, "resetRotation", FALSE)
    /\ done' = <<>>
    /\ UNCHANGED <<mountPc, canvasContainer, pixiApp, appDestroyed, unmounted,
                   boardContainer, board, currentRotation, originalBoardY,
                   activated, rotation, slotBoardComponent>>
    /\ UNCHANGED gridVars

(***************************************************************************)
(* The App: activateFeature, rotateBoard, resetBoard                       *)
(***************************************************************************)
AppRotateGuard(comp, act) == comp /\ act

AppResetGuard(comp) == comp

ActivateFeature ==
    /\ mountPc # "constructed"
    /\ ~unmounted
    /\ ~activated
    /\ activated' = TRUE
    /\ lastCall' = Call("App.activateFeature", FALSE, TRUE, FALSE, FALSE, FALSE)
    /\ done' = <<>>
    /\ UNCHANGED <<mountPc, canvasContainer, pixiApp, appDestroyed, unmounted,
                   boardContainer, board, currentRotation, originalBoardY,
                   rotation, slotBoardComponent, anims, errorLog, since, calls>>
    /\ UNCHANGED gridVars

AppRotateBoard(fail) ==
    /\ mountPc # "constructed"
    /\ ~unmounted
    /\ calls < MaxCalls
    /\ calls' = calls + 1
    /\ IF AppRotateGuard(slotBoardComponent, activated)
       THEN DoRotateBoard(fail, "App.rotateBoard", TRUE)
       ELSE /\ lastCall' = Call("App.rotateBoard", FALSE, TRUE, FALSE, FALSE,
                                FALSE)
            /\ UNCHANGED <<board, anims, errorLog, since>>
    /\ done' = <<>>
    /\ UNCHANGED <<mountPc, canvasContainer, pixiApp, appDestroyed, unmounted,
                   boardContainer, currentRotation, originalBoardY, activated,
                   rotation, slotBoardComponent>>
    /\ UNCHANGED gridVars

AppResetBoard(fail) ==
    /\ mountPc # "constructed"
    /\ ~unmounted
    /\ calls < MaxCalls
    /\ calls' = calls + 1
    /\ IF AppResetGuard(slotBoardComponent)
       THEN DoResetRotation(fail, "App.resetBoard", TRUE)
       ELSE /\ lastCall' = Call("App.resetBoard", FALSE, TRUE, FALSE, FALSE,
                                FALSE)
            /\ UNCHANGED <<anims, errorLog, since>>
    /\ done' = <<>>
    /\ UNCHANGED <<mountPc, canvasContainer, pixiApp, appDestroyed, unmounted,
                   boardContainer, board, currentRotation, originalBoardY,
                   activated, rotation, slotBoardComponent>>
    /\ UNCHANGED gridVars

(***************************************************************************)
(* The parent changes the rotation prop; the $effect re-runs               *)
(***************************************************************************)
SetRotationProp(r) ==
    /\ mountPc # "constructed"
    /\ ~unmounted
    /\ r # rotation
    /\ calls < MaxCalls
    /\ calls' = calls + 1
    /\ rotation' = r
    /\ board' = EffectBoard(boardContainer, board, r)
    /\ currentRotation' = EffectRotation(boardContainer, currentRotation, r)
    /\ anims' = Disturb(anims)
    /\ since' = IF boardContainer THEN Since("prop") ELSE since
    /\ lastCall' = Call("rotation=", FALSE, TRUE, FALSE, FALSE, FALSE)
    /\ done' = <<>>
    /\ UNCHANGED <<mountPc, canvasContainer, pixiApp, appDestroyed, unmounted,
                   boardContainer, originalBoardY, activated, slotBoardComponent,
                   errorLog>>
    /\ UNCHANGED gridVars

(***************************************************************************)
(* One frame of the render loop                                            *)
(***************************************************************************)
Tick ==
    /\ anims # <<>>
    /\ \E r \in {TickAll(anims, 1,
                    [anims |-> <<>>, done |-> <<>>, board |-> board,
                     currentRotation |-> currentRotation])} :
           /\ anims' = r.anims
           /\ done' = r.done
           /\ board' = r.board
           /\ currentRotation' = r.currentRotation
    /\ lastCall' = Call("tick", FALSE, TRUE, FALSE, FALSE, FALSE)
    /\ UNCHANGED <<mountPc, canvasContainer, pixiApp, appDestroyed, unmounted,
                   boardContainer, originalBoardY, activated, rotation,
                   slotBoardComponent, errorLog, since, calls>>
    /\ UNCHANGED gridVars

Next ==
    \/ \E fail \in BOOLEAN : Mount(fail)
    \/ \E fail \in MountFailures, canvasKept \in BOOLEAN :
           MountResume(fail, canvasKept)
    \/ Destroy
    \/ TeardownBindThis
    \/ \E fail \in BOOLEAN : RotateBoard(fail)
    \/ \E fail \in BOOLEAN : ResetRotation(fail)
    \/ ActivateFeature
    \/ \E fail \in BOOLEAN : AppRotateBoard(fail)
    \/ \E fail \in BOOLEAN : AppResetBoard(fail)
    \/ \E r \in RotationValues : SetRotationProp(r)
    \/ Tick

Spec == Init /\ [][Next]_vars

\* the render loop keeps ticking while an animation is in flight
FairSpec == Spec /\ WF_vars(Tick)

\* the mount of the component alone, over the random streams
GridInit == InitComponent /\ randomSeed \in 0..MaxSeed

GridNext ==
    \/ \E fail \in BOOLEAN : Mount(fail)
    \/ \E fail \in MountFailures, canvasKept \in BOOLEAN :
           MountResume(fail, canvasKept)

GridSpec == GridInit /\ [][GridNext]_vars

TypeOK ==
    /\ mountPc \in {"constructed", "awaitInit", "mounted", "failed"}
    /\ boardContainer \in BOOLEAN
    /\ Len(anims) <= MaxAnims
    /\ calls \in 0..MaxCalls

(***************************************************************************)
(* Properties                                                              *)
(***************************************************************************)
Idle == anims = <<>>

Live == mountPc = "mounted" /\ ~unmounted

\* the step is a call of rotateBoard (directly, or forwarded by the App)
RotateCalled ==
    /\ calls' = calls + 1
    /\ \/ lastCall'.op = "rotateBoard"
       \/ lastCall'.op = "App.rotateBoard" /\ lastCall'.forwarded

\* the step is a call of resetRotation (directly, or forwarded by the App)
ResetCalled ==
    /\ calls' = calls + 1
    /\ \/ lastCall'.op = "resetRotation"
       \/ lastCall'.op = "App.resetBoard" /\ lastCall'.forwarded

ComponentState ==
    <<boardContainer, board, currentRotation, originalBoardY, anims, errorLog,
      pixiApp, mountPc>>

\* C1: a rotation timeline started on a mounted, activated board whose
\* currentRotation was r, and not interrupted by any other operation, leaves
\* the board at exactly r + 90 degrees with currentRotation = r + 90, y equal
\* to the y at the call and both scale factors 1.0 when its onComplete has run.
C1_SpinSettles ==
    \A i \in DOMAIN done :
        (Live /\ done[i].kind = "timeline" /\ done[i].clean) =>
            /\ board.rotation = (done[i].callRotation + 90) * 1000
            /\ currentRotation = done[i].callRotation + 90
            /\ board.y = done[i].callY
            /\ board.scaleX = 1000
            /\ board.scaleY = 1000

\* an uninterrupted timeline that was started at 45 degrees has completed
C1_Witness ==
    \E i \in DOMAIN done :
        /\ Live /\ done[i].kind = "timeline" /\ done[i].clean
        /\ done[i].callRotation = 45
        /\ board.rotation = 135000

\* C2: whenever no animation is running, the board's y is its mount
\* position originalBoardY = CANVAS_HEIGHT / 2, whatever calls were made.
C2_AlwaysFallsBack ==
    (boardContainer /\ Idle) => (board.y = originalBoardY /\ board.y = 240)

\* C3: while activated is false a call of rotateBoard starts no timeline and
\* changes no state, and the App forwards no rotateBoard call to the
\* component while activated is false.
C3_SpinNeedsActivation ==
    [][/\ (RotateCalled /\ ~activated) =>
              (~lastCall'.started /\ UNCHANGED ComponentState)
       /\ (calls' = calls + 1 /\ lastCall'.op = "App.rotateBoard"
              /\ lastCall'.forwarded) => activated]_vars

\* rotateBoard was called on an existing board before activation and
\* started nothing
C3_Witness ==
    /\ lastCall.op = "rotateBoard"
    /\ ~activated
    /\ mountPc = "mounted"
    /\ boardContainer
    /\ ~lastCall.started

\* C4: while boardContainer is null (mount not finished, or failed before a
\* board was created) rotateBoard and resetRotation start no animation,
\* change no component state, log nothing and return normally.
C4_NoBoardNoOp ==
    [][((RotateCalled \/ ResetCalled) /\ ~boardContainer) =>
           /\ UNCHANGED ComponentState
           /\ ~lastCall'.started
           /\ lastCall'.returned
           /\ ~lastCall'.logged]_vars

\* rotateBoard was called with activated true after mount initialization
\* failed without a board
C4_Witness ==
    /\ lastCall.op = "rotateBoard"
    /\ activated
    /\ mountPc = "failed"
    /\ ~boardContainer
    /\ lastCall.returned

\* the step is a frame of the render loop
Ticked == anims # <<>> /\ lastCall'.op = "tick" /\ calls' = calls

\* C5: once onDestroy has destroyed the render surface, rotateBoard and
\* resetRotation start no animation and mutate nothing, and no animation
\* started earlier mutates the board or currentRotation any more.
C5_DestroyedIsInert ==
    [][(appDestroyed /\ mountPc # "awaitInit") =>
           /\ (RotateCalled \/ ResetCalled) =>
                  (~lastCall'.started /\ UNCHANGED ComponentState)
           /\ Ticked => (board' = board /\ currentRotation' = currentRotation)]_vars

\* C6: a failure raised inside mount initialization, rotateBoard or
\* resetRotation never escapes: the operation returns normally and the error
\* is logged.
C6_ErrorsLoggedNotPropagated ==
    lastCall.raised => (lastCall.returned /\ lastCall.logged)

\* the reset tween of history `since` has run to its end on its own
ResetRanAlone == since.op = "reset" /\ since.idle /\ Idle

\* C7: a resetRotation called on a mounted idle board and not interrupted
\* leaves the rendered rotation and currentRotation at 0 at completion, and
\* an uninterrupted rotateBoard that follows settles at exactly 90 degrees.
C7_ResetToNeutral ==
    /\ (Live /\ ResetRanAlone) => (board.rotation = 0 /\ currentRotation = 0)
    /\ \A i \in DOMAIN done :
           (Live /\ done[i].kind = "timeline" /\ done[i].clean
                 /\ done[i].after = "reset") =>
               (board.rotation = 90000 /\ currentRotation = 90)

\* a reset started at 45 degrees has completed, not activated
C7_Witness ==
    /\ Live /\ ResetRanAlone
    /\ \E i \in DOMAIN done : done[i].kind = "reset" /\ done[i].callRotation = 45
    /\ ~activated

\* C8: after a resetRotation called while a rotation timeline was running,
\* with no further call, once every animation has completed the rendered
\* rotation is 0, currentRotation is 0, y is originalBoardY and scale is 1.0.
C8_ResetDuringSpin ==
    (Live /\ since.op = "reset" /\ since.overTimeline /\ Idle) =>
        /\ board.rotation = 0
        /\ currentRotation = 0
        /\ board.y = originalBoardY
        /\ board.scaleX = 1000
        /\ board.scaleY = 1000

\* C9: a change of the rotation prop to r on an existing board makes the
\* rendered rotation r degrees and currentRotation r, and a following
\* uninterrupted rotateBoard settles at r + 90; while the board does not
\* exist the change leaves the component state alone.
C9_PropDrivesRotation ==
    [][/\ (calls' = calls + 1 /\ lastCall'.op = "rotation=") =>
              IF boardContainer
              THEN board'.rotation = rotation' * 1000
                       /\ currentRotation' = rotation'
              ELSE UNCHANGED ComponentState
       /\ \A i \in DOMAIN done' :
              (done'[i].kind = "timeline" /\ done'[i].clean
                   /\ done'[i].after = "prop" /\ ~unmounted) =>
                  /\ board'.rotation = (rotation' + 90) * 1000
                  /\ currentRotation' = rotation' + 90]_vars

\* C10: whenever the board is mounted and idle, the rotation prop equals
\* currentRotation and the rendered rotation.
C10_PropInSync ==
    (Live /\ Idle) =>
        (rotation = currentRotation /\ board.rotation = rotation * 1000)

\* a rotation timeline started on an idle board and not interrupted by any
\* other operation while it ran
Uninterrupted(a) == a.kind = "timeline" /\ a.clean /\ a.idle

\* the tweens of `a` that carry a rotation, in the order they reached their end
RotationOrder(a) ==
    SelectSeq(a.order, LAMBDA k : "rotation" \in DOMAIN a.tweens[k].to)

\* C11: in an uninterrupted rotation started at r the rotation tweens reach
\* their targets in the order r + 95, r + 87, r + 90 and the settle starts
\* from r + 87; the fall starts from the top position (start y - 80), and
\* the fall back to the start y is the last tween to reach its end, after
\* which onComplete has set currentRotation to r + 90.
C11_OvershootBounceSettle ==
    \A i \in DOMAIN done :
        (Live /\ Uninterrupted(done[i])) =>
            LET a == done[i]
                r == a.callRotation
                ro == RotationOrder(a)
            IN  /\ [k \in DOMAIN ro |-> a.tweens[ro[k]].to.rotation]
                       = <<(r + 95) * 1000, (r + 87) * 1000, (r + 90) * 1000>>
                /\ a.tweens[ro[2]].from.rotation > (r + 90) * 1000
                /\ a.tweens[ro[3]].from.rotation = (r + 87) * 1000
                /\ \A k \in DOMAIN a.tweens :
                       (DOMAIN a.tweens[k].to = {"y"}
                            /\ a.tweens[k].to.y = a.callY) =>
                           /\ a.tweens[k].from.y = a.callY - 80
                           /\ a.order[Len(a.order)] = k
                /\ \E k \in DOMAIN a.tweens :
                       DOMAIN a.tweens[k].to = {"y"} /\ a.tweens[k].to.y = a.callY
                /\ board.y = a.callY
                /\ currentRotation = r + 90

\* an uninterrupted timeline started at 45 degrees has completed, all six
\* of its tweens having reached their end
C11_Witness ==
    \E i \in DOMAIN done :
        /\ Live /\ Uninterrupted(done[i])
        /\ done[i].callRotation = 45
        /\ Len(done[i].order) = 6
        /\ Len(RotationOrder(done[i])) = 3

\* the tweens of a rotation timeline, told apart by their targets
ZoomOutTween(a) ==
    CHOOSE k \in DOMAIN a.tweens :
        "scaleX" \in DOMAIN a.tweens[k].to /\ a.tweens[k].to.scaleX = 900

UpTween(a) ==
    CHOOSE k \in DOMAIN a.tweens :
        /\ DOMAIN a.tweens[k].to = {"y", "rotation"}
        /\ a.tweens[k].to.y = a.callY - 80
        /\ a.tweens[k].to.rotation = (a.callRotation + 95) * 1000

ZoomInTween(a) ==
    CHOOSE k \in DOMAIN a.tweens :
        "scaleX" \in DOMAIN a.tweens[k].to /\ a.tweens[k].to.scaleX = 1000

FallTween(a) ==
    CHOOSE k \in DOMAIN a.tweens :
        DOMAIN a.tweens[k].to = {"y"} /\ a.tweens[k].to.y = a.callY

HasEnded(a, k) == \E j \in DOMAIN a.order : a.order[j] = k

\* the zoom and the vertical move of timeline `a` run in step
ZoomInStep(a) ==
    LET zo == a.tweens[ZoomOutTween(a)]
        up == a.tweens[UpTween(a)]
        zi == a.tweens[ZoomInTween(a)]
        fall == a.tweens[FallTween(a)]
    IN  /\ zo.start = up.start /\ zo.dur = up.dur
        /\ zi.start = fall.start /\ zi.dur = fall.dur
        /\ zo.inited = up.inited
        /\ zi.inited = fall.inited
        /\ HasEnded(a, ZoomOutTween(a)) = HasEnded(a, UpTween(a))
        /\ HasEnded(a, ZoomInTween(a)) = HasEnded(a, FallTween(a))
        /\ board.scaleX = board.scaleY
        /\ IF fall.inited
           THEN (board.scaleX = 1000) = (board.y = a.callY)
           ELSE (board.scaleX = 900) = (board.y = a.callY - 80)
        /\ HasEnded(a, UpTween(a)) =>
               (fall.inited \/ (board.scaleX = 900 /\ board.y = a.callY - 80))
        /\ HasEnded(a, FallTween(a)) =>
               (board.scaleX = 1000 /\ board.y = a.callY)

\* C12: within an uninterrupted rotation timeline the zoom-out tween starts
\* with the upward move and lasts as long, so the scale is 0.9 exactly when
\* y is start y - 80, and the zoom-in tween starts with the fall and lasts as
\* long, so the scale is 1.0 exactly when y is back at the start y.
C12_ZoomSynchronized ==
    /\ (Live /\ Len(anims) = 1 /\ Uninterrupted(anims[1])) =>
           ZoomInStep(anims[1])
    /\ \A i \in DOMAIN done :
           (Live /\ Idle /\ Uninterrupted(done[i])) => ZoomInStep(done[i])

\* an uninterrupted timeline is at the top: zoomed out to 0.9 and 80 pixels
\* up, the fall not yet started
C12_Witness ==
    /\ Live /\ Len(anims) = 1 /\ Uninterrupted(anims[1])
    /\ HasEnded(anims[1], UpTween(anims[1]))
    /\ ~anims[1].tweens[FallTween(anims[1])].inited
    /\ board.scaleX = 900
    /\ board.y = anims[1].callY - 80

\* the tweens that wrote property p of the board in the last frame
WritersIn(as, p) ==
    {<<i, k>> \in (DOMAIN as) \X (1..6) :
        k \in as[i].wrote /\ p \in DOMAIN as[i].tweens[k].to}

Writers(p) == Cardinality(WritersIn(anims, p)) + Cardinality(WritersIn(done, p))

\* C13: in every frame at most one tween writes any given property of the
\* board (rotation, y, scale), within one rotation timeline and across
\* rotateBoard / resetRotation calls made while an animation is running.
C13_SingleWriter ==
    (Live /\ lastCall.op = "tick") =>
        \A p \in {"rotation", "y", "scaleX", "scaleY"} : Writers(p) <= 1

\* the same within a single timeline that nothing interrupts (violated in
\* the frame in which the overshoot ends and the bounce-back has started)
SingleWriterInTimeline ==
    (/\ Live /\ lastCall.op = "tick" /\ Len(anims) + Len(done) = 1
     /\ \A i \in DOMAIN anims : Uninterrupted(anims[i])
     /\ \A i \in DOMAIN done : Uninterrupted(done[i])) =>
        \A p \in {"rotation", "y", "scaleX", "scaleY"} : Writers(p) <= 1

\* animation `b` is animation `a`, possibly marked as interrupted
SameAnimation(a, b) == b = [a EXCEPT !.clean = b.clean]

\* a step removes an animation from flight only by running it to its end
NoCancellation ==
    IF Ticked
    THEN /\ Len(anims') + Len(done') = Len(anims)
         /\ \A i \in DOMAIN done' :
                done'[i].time = TimelineEnd(done'[i].tweens)
    ELSE /\ Len(anims') >= Len(anims)
         /\ \A i \in DOMAIN anims : SameAnimation(anims[i], anims'[i])

\* C14: no operation cancels an animation in flight.  An animation leaves
\* the animations in flight only in the frame in which it reaches its end
\* and its onComplete runs, whatever calls are made meanwhile; and while
\* the render loop keeps ticking and the component is not destroyed, a busy
\* board eventually becomes idle.
C14_NoCancellation ==
    /\ [][NoCancellation]_vars
    /\ (~Idle /\ ~unmounted) ~> (Idle \/ unmounted)

\* a reset tween started while a timeline was running has run to its end,
\* and so has the timeline, later
C14_Witness ==
    /\ Live /\ Idle
    /\ since.op = "reset" /\ since.overTimeline
    /\ \E i \in DOMAIN done : done[i].kind = "timeline" /\ ~done[i].clean

\* C15: a successful mount builds exactly a 5x5 grid: symbolGrid has 25
\* entries, each one of the letters A..Z; tile i (from 0) shows entry i and
\* sits at x = (i mod 5) * 70, y = (i div 5) * 70 inside the symbols
\* container; no two tiles share a position; and every 60x60 tile, offset
\* by the container's 20 pixels, lies inside the 380x380 frame.
C15_GridIsFiveByFive ==
    (mountPc = "mounted") =>
        LET cells == symbolsGrid.cells
        IN  /\ Len(symbolGrid) = 25
            /\ \A n \in 1..25 :
                   symbolGrid[n] \in
                       {"A", "B", "C", "D", "E", "F", "G", "H", "I", "J", "K",
                        "L", "M", "N", "O", "P", "Q", "R", "S", "T", "U", "V",
                        "W", "X", "Y", "Z"}
            /\ Len(cells) = 25
            /\ \A n \in 1..25 :
                   /\ cells[n].text = symbolGrid[n]
                   /\ cells[n].x = ((n - 1) % 5) * 70
                   /\ cells[n].y = ((n - 1) \div 5) * 70
                   /\ cells[n].width = 60 /\ cells[n].height = 60
                   /\ symbolsGrid.x + cells[n].x >= 0
                   /\ symbolsGrid.y + cells[n].y >= 0
                   /\ symbolsGrid.x + cells[n].x + cells[n].width <= 380
                   /\ symbolsGrid.y + cells[n].y + cells[n].height <= 380
            /\ symbolsGrid.x = 20 /\ symbolsGrid.y = 20
            /\ \A m, n \in 1..25 :
                   (m # n) => (<<cells[m].x, cells[m].y>> # <<cells[n].x, cells[n].y>>)

\* a mounted board whose grid starts with the last letter and also holds
\* the first, its last tile in the bottom right corner
C15_Witness ==
    /\ mountPc = "mounted"
    /\ Len(symbolGrid) = 25
    /\ symbolGrid[1] = "Z"
    /\ \E n \in 1..25 : symbolGrid[n] = "A"
    /\ symbolsGrid.cells[25].x = 280 /\ symbolsGrid.cells[25].y = 280

\* C16: whenever no animation is running on a board that exists, both scale
\* factors are 1.0, whatever rotateBoard / resetRotation calls were made.
C16_IdleScaleIsOne ==
    (boardContainer /\ Idle) => (board.scaleX = 1000 /\ board.scaleY = 1000)

\* idle again after a rotateBoard that was called while another animation
\* was running
C16_Witness ==
    /\ Live /\ Idle
    /\ since.op = "rotate" /\ ~since.idle
    /\ \E i \in DOMAIN done : done[i].kind = "timeline"

\* C17: after n accepted rotateBoard calls on a board mounted at 0 degrees,
\* with no reset and no prop change, once every timeline has completed
\* currentRotation and the rendered rotation are 90 * n degrees, also when
\* a call was made while an earlier timeline was running.
C17_EverySpinAdds90 ==
    (Live /\ Idle /\ since.onlySpins) =>
        /\ currentRotation = 90 * since.spins
        /\ board.rotation = 90 * since.spins * 1000

\* C18: a rotateBoard called after resetRotation and before the reset tween
\* has completed, with no further call, ends with the rendered rotation and
\* currentRotation both at 90 degrees, not at the pre-reset rotation + 90.
C18_SpinDuringResetFromNeutral ==
    \A i \in DOMAIN done :
        (Live /\ Idle /\ done[i].kind = "timeline" /\ done[i].clean
              /\ done[i].after = "resetting") =>
            (board.rotation = 90000 /\ currentRotation = 90)

\* C19: whenever the board exists and no animation is running, the rendered
\* rotation, in degrees, equals currentRotation, for any interleaving of
\* rotateBoard, resetRotation, prop changes and completions.
C19_TrackedEqualsRendered ==
    (boardContainer /\ Idle) => (board.rotation = currentRotation * 1000)

\* idle again, away from 0, after the rotation prop was changed while an
\* animation was running
C19_Witness ==
    /\ Live /\ Idle
    /\ since.op = "prop" /\ ~since.idle
    /\ done # <<>>
    /\ currentRotation # 0

\* the frame lies within the canvas
FrameInsideCanvas(b) ==
    /\ FrameLeft(b) >= 0
    /\ FrameTop(b) >= 0
    /\ FrameRight(b) <= CANVAS_WIDTH * 1000
    /\ FrameBottom(b) <= CANVAS_HEIGHT * 1000

\* C20: in every frame of an uninterrupted rotation timeline in which the
\* rotation is a whole multiple of 90 degrees (at the start, when the
\* rotation has settled at the top, at the end) the 380x380 frame, scaled
\* about its centred pivot, lies entirely within the 480x480 canvas.
C20_FrameStaysInsideCanvas ==
    /\ (Live /\ Len(anims) = 1 /\ Uninterrupted(anims[1])
             /\ board.rotation % 90000 = 0) => FrameInsideCanvas(board)
    /\ \A i \in DOMAIN done :
           (Live /\ Idle /\ Uninterrupted(done[i])
                 /\ board.rotation % 90000 = 0) => FrameInsideCanvas(board)

\* C21: when the component was destroyed while onMount was awaiting the
\* init of the render surface, the rest of onMount builds no board:
\* boardContainer stays null, no scene is built, and rotateBoard and
\* resetRotation remain no-ops.  (Holds of the continuations that run after
\* the teardown of bind:this or on an Application whose canvas getter
\* throws; a continuation that runs before the teardown on an Application
\* that kept its canvas builds the board.)
C21_DestroyedWhileMounting ==
    [][/\ (unmounted /\ mountPc = "awaitInit") =>
              /\ ~boardContainer'
              /\ board' = board
              /\ symbolsGrid' = symbolsGrid
       /\ ((RotateCalled \/ ResetCalled) /\ unmounted /\ since.op = "none") =>
              (~lastCall'.started /\ UNCHANGED ComponentState)]_vars

\* the last operation was a rotateBoard that went on to call
\* createRotationAnimation
CreateCalled ==
    /\ \/ lastCall.op = "rotateBoard"
       \/ lastCall.op = "App.rotateBoard" /\ lastCall.forwarded
    /\ lastCall.started \/ lastCall.raised

\* C22: whenever rotateBoard has called createRotationAnimation,
\* boardContainer is non-null and the error raised, if any, is not
\* 'Board container not initialized'; no call ever raises that error.
C22_NotInitializedUnreachable ==
    /\ CreateCalled => boardContainer
    /\ lastCall.error # "Board container not initialized"

\* rotateBoard called createRotationAnimation on a destroyed component,
\* whose boardContainer is still there, and a library call in it threw
C22_Witness ==
    /\ CreateCalled
    /\ unmounted
    /\ lastCall.raised /\ lastCall.returned /\ lastCall.logged
    /\ boardContainer

====
